---- MODULE Spec2Model ----
\* Cofoundr AI front-end: the idea validator, the retrying generation client
\* (services/api.js), the health prober and the pitch-deck form of App.jsx.
EXTENDS Integers, Sequences, FiniteSets, TLC

VARIABLES
    \* App.jsx useState fields
    businessIdea, output, loading, serverStatus, presentationStyle,
    generateDetailed, showLanding, activeTab,
    \* generation calls (generatePitchDeck / generateDetailedPitchDeck) in flight
    calls,
    \* whether a checkServerHealth probe is awaiting its answer
    probeInFlight,
    \* history of the generation client: the transport answers delivered to the
    \* call started last, and that call once it has finished
    trace, lastCall,
    \* a direct call of validateStartupIdea: its argument and its result
    vIdea, vResult,
    \* Date.now() and the requests built so far, each with its arguments
    now, sent,
    \* the health effect of App.jsx on a time line: the time since mount in ms,
    \* whether the component is mounted, the interval firings so far, the
    \* probes started so far, the probes awaiting their answer, and the
    \* answers of the completed probes
    clock, mounted, ticks, started, probes, results,
    \* LogoGenerator.jsx: the businessIdea prop and the useState fields of the
    \* component
    propIdea, logos, generating, brandPalette, brandKit, marketingCopy, logoError,
    \* direct calls of extractCompanyName and determineTheme: their results
    nameResult, themeResult,
    \* the fetch-based LogoGenerator: its useState fields, and whether a call of
    \* handleGenerateLogo has not ended yet
    fetchLoading, logoUrl, fetchPending,
    \* App.jsx: loadingMessage, and the pending setTimeout callbacks of the
    \* generation handlers
    loadingMessage, timers,
    \* whether Clear was pressed and no generation has been started since
    cleared

vars == <<businessIdea, output, loading, serverStatus, presentationStyle,
          generateDetailed, showLanding, activeTab, calls, probeInFlight,
          trace, lastCall, vIdea, vResult, now, sent,
          clock, mounted, ticks, started, probes, results,
          propIdea, logos, generating, brandPalette, brandKit, marketingCopy,
          logoError, nameResult, themeResult, fetchLoading, logoUrl, fetchPending,
          loadingMessage, timers, cleared>>

uiVars == <<businessIdea, output, loading, serverStatus, presentationStyle,
            generateDetailed, showLanding, activeTab>>

\* the history of the client, recorded under ClientSpec only
hist == <<trace, lastCall>>

\* the request builder observed on its own, under RequestSpec only
reqVars == <<now, sent>>

\* the time line of the health effect, followed under HealthSpec only
probeVars == <<clock, mounted, ticks, started, probes, results>>

\* LogoGenerator.jsx, followed under LogoSpec only
logoVars == <<propIdea, logos, generating, brandPalette, brandKit, marketingCopy,
              logoError, nameResult, themeResult, fetchLoading, logoUrl,
              fetchPending>>

\* the loading message and its timers, followed under LoadingSpec only
loadVars == <<loadingMessage, timers, cleared>>

\* what the form and the generation client leave alone
aside == <<reqVars, probeVars, logoVars, loadVars>>

----------------------------------------------------------------------------
\* Bounds of the model

\* ideas are tried with 0..MaxPad blanks before and after the text
MaxPad == 2
\* text lengths are tried within MaxSlack of each limit of the validator
MaxSlack == 1
\* number of the sample ideas of App.jsx offered by the model
MaxSamples == 1
\* number of the keys of the "Try Different Style" menu offered by the model
MaxStyles == 1
\* Date.now() takes the values 0..MaxClock, in ms after the first request
MaxClock == 1
\* number of requests built in one run of RequestSpec
MaxRequests == 2
\* number of firings of the health interval followed by HealthSpec
MaxTicks == 2
\* time passes in steps of at most TimeStep ms
TimeStep == 5000

----------------------------------------------------------------------------
\* JavaScript values.  A string is a sequence of text fragments, so that
\* concatenation is \o, a prefix is a leading fragment and includes() is the
\* presence of a fragment.

Undefined == [t |-> "undefined", s |-> <<>>]

Null == [t |-> "null", s |-> <<>>]

Str(s) == [t |-> "string", s |-> s]

\* ToBoolean: undefined and '' are falsy
Truthy(v) == v.t = "string" /\ v.s # <<>>

\* a || b
OrElse(a, b) == IF Truthy(a) THEN a ELSE b

IsString(v) == v.t = "string"

\* the failure glyph, U+274C
FailureGlyph == "(x)"

\* `(x) ${message}`
FailureString(message) == Str(<<FailureGlyph, " ">> \o message)

\* String.prototype.startsWith / includes on a fragment
StartsWith(v, frag) == IsString(v) /\ Len(v.s) > 0 /\ v.s[1] = frag

Includes(v, frag) == IsString(v) /\ \E i \in 1..Len(v.s) : v.s[i] = frag

----------------------------------------------------------------------------
\* Idea texts.  An idea is null, or a text of `lead` blanks, `core` characters
\* that begin and end with a non-blank, and `trail` blanks.

NullIdea == [isNull |-> TRUE, lead |-> 0, core |-> 0, trail |-> 0]

Idea(l, c, t) == [isNull |-> FALSE, lead |-> l, core |-> c, trail |-> t]

\* idea.length
Length(i) == i.lead + i.core + i.trail

\* idea.trim()
Trim(i) == Idea(0, i.core, 0)

\* !idea : null, undefined and '' are falsy
Falsy(i) == i.isNull \/ Length(i) = 0

minLength == 10

maxLength == 1000

TooShortError ==
    <<"Please provide a more detailed description (at least ",
      ToString(minLength), " characters)">>

TooLongError ==
    <<"Description is too long (maximum ", ToString(maxLength), " characters)">>

Valid == [isValid |-> TRUE, error |-> Undefined]

Invalid(msg) == [isValid |-> FALSE, error |-> Str(msg)]

\* the validator without trim(), and with <= for <
validateWithoutTrim(idea) ==
    IF Falsy(idea) \/ Length(idea) < minLength
    THEN Invalid(TooShortError)
    ELSE IF Length(idea) > maxLength
         THEN Invalid(TooLongError)
         ELSE Valid

validateInclusiveMin(idea) ==
    IF Falsy(idea) \/ Length(Trim(idea)) <= minLength
    THEN Invalid(TooShortError)
    ELSE IF Length(idea) > maxLength
         THEN Invalid(TooLongError)
         ELSE Valid

validateStartupIdea(idea) ==
    IF Falsy(idea) \/ Length(Trim(idea)) < minLength
    THEN Invalid(TooShortError)
    ELSE IF Length(idea) > maxLength
         THEN Invalid(TooLongError)
         ELSE Valid

----------------------------------------------------------------------------
\* The transport (axios).  An answer is a 2xx response with its parsed body, a
\* response with another status (axios rejects with error.response set), or a
\* failure without response (axios rejects with error.code set).

DeckText == <<"# Pitch Deck: slides">>

ServerMessage == <<"Idea rejected by the content policy">>

OkAnswer(hasData, success, deck, message) ==
    [kind |-> "ok", status |-> 200, code |-> "", hasData |-> hasData,
     success |-> success, deck |-> deck, message |-> message]

HttpAnswer(status, message) ==
    [kind |-> "http", status |-> status, code |-> "", hasData |-> TRUE,
     success |-> FALSE, deck |-> Undefined, message |-> message]

NetAnswer(code) ==
    [kind |-> "net", status |-> 0, code |-> code, hasData |-> FALSE,
     success |-> FALSE, deck |-> Undefined, message |-> Undefined]

\* bodies of a 2xx response: {success, deck?, message?}, or null
OkAnswers ==
    {OkAnswer(FALSE, FALSE, Undefined, Undefined)}
    \cup {OkAnswer(TRUE, TRUE, d, Undefined) : d \in {Undefined, Str(DeckText)}}
    \cup {OkAnswer(TRUE, FALSE, Undefined, m) : m \in {Undefined, Str(ServerMessage)}}

HttpStatuses == {400, 401, 404, 429, 500, 503}

HttpAnswers ==
    {HttpAnswer(st, Undefined) : st \in HttpStatuses}
    \cup {HttpAnswer(st, Str(ServerMessage)) : st \in {400, 401}}

NetCodes == {"ECONNREFUSED", "ECONNABORTED", "ERR_NETWORK"}

NetAnswers == {NetAnswer(c) : c \in NetCodes}

Answers == OkAnswers \cup HttpAnswers \cup NetAnswers

----------------------------------------------------------------------------
\* services/api.js: makeRequest, retryRequest, generatePitchDeck

\* new Error(message): an Error carries no response
JsError(message) == [message |-> message, hasResponse |-> FALSE, status |-> 0]

Returned(v) == [threw |-> FALSE, value |-> v, error |-> JsError(<<>>)]

Thrown(e) == [threw |-> TRUE, value |-> Undefined, error |-> e]

UnavailableText ==
    <<"Server is temporarily unavailable. Please try again in a moment.">>

RateLimitText ==
    <<"Too many requests. Please wait a moment before trying again.">>

ServerErrorText == <<"Server error. Please try again.">>

CannotConnectText ==
    <<"Cannot connect to server. Please make sure the server is running.">>

TimedOutText ==
    <<"Request timed out. The server may be processing your request - please try again.">>

NetworkErrorText ==
    <<"Network error. Please check your connection and try again.">>

\* 'Failed to generate pitch deck.' / 'Failed to generate detailed pitch deck.'
FailedText(endpoint) ==
    IF endpoint = "/generate" THEN <<"Failed", " to generate pitch deck.">>
    ELSE <<"Failed", " to generate detailed pitch deck.">>

\* the catch block of makeRequest
makeRequestCatch(o, endpoint) ==
    IF o.kind = "http"
    THEN IF o.status = 503 THEN Thrown(JsError(UnavailableText))
         ELSE IF o.status = 429 THEN Thrown(JsError(RateLimitText))
         ELSE IF o.status >= 500 THEN Thrown(JsError(ServerErrorText))
         ELSE Thrown(JsError(OrElse(o.message, Str(FailedText(endpoint))).s))
    ELSE IF o.code = "ECONNREFUSED" THEN Thrown(JsError(CannotConnectText))
    ELSE IF o.code = "ECONNABORTED" THEN Thrown(JsError(TimedOutText))
    ELSE Thrown(JsError(NetworkErrorText))

\* a body of null makes response.data.success throw a TypeError inside the try
makeRequest(o, endpoint) ==
    IF o.kind = "ok"
    THEN IF ~o.hasData
         THEN makeRequestCatch(NetAnswer(""), endpoint)
         ELSE IF o.success THEN Returned(o.deck)
         ELSE Returned(OrElse(o.message, Str(FailedText(endpoint))))
    ELSE makeRequestCatch(o, endpoint)

\* the arguments of retryRequest(makeRequest, 3, 2000)
maxRetries == 3

delay == 2000

\* "Don't retry on certain errors"
NoRetryError(error) ==
    error.hasResponse /\ (error.status = 400 \/ error.status = 401)

\* a backoff counted from the attempt before
backoffLinearFromZero(attempt) == delay * (attempt - 1)

\* delay * attempt
Backoff(attempt) == delay * attempt

\* a loop bound of one attempt more
lastAttemptOffByOne(attempt) == attempt = maxRetries + 1

\* attempt === maxRetries
LastAttempt(attempt) == attempt = maxRetries

\* one pass of the loop body of retryRequest on the outcome r of requestFn()
retryRequest(attempt, r) ==
    IF ~r.threw THEN [next |-> "return", wait |-> 0]
    ELSE IF LastAttempt(attempt) THEN [next |-> "throw", wait |-> 0]
    ELSE IF NoRetryError(r.error) THEN [next |-> "throw", wait |-> 0]
    ELSE [next |-> "wait", wait |-> Backoff(attempt)]

Resolved(v) == [rejected |-> FALSE, value |-> v]

\* every failure reported by one generic text, as the first api.js did
sendGenericFailure(r) ==
    IF r.threw THEN Resolved(FailureString(FailedText("/generate")))
    ELSE Resolved(r.value)

\* try { return await retryRequest(...) } catch (error) { return `(x) ${error.message}` }
generatePitchDeck(r) ==
    IF r.threw THEN Resolved(FailureString(r.error.message)) ELSE Resolved(r.value)

----------------------------------------------------------------------------
\* services/api.js: checkServerHealth, and checkHealth of App.jsx

\* answers of GET /health: a 2xx body with or without a status field of its own,
\* a failure with a code, a 5xx response, another error
HealthAnswers ==
    {[kind |-> "ok", status |-> st] : st \in {"", "healthy", "degraded"}}
    \cup {[kind |-> k, status |-> ""] :
            k \in {"ECONNREFUSED", "ECONNABORTED", "5xx", "other"}}

\* { status: 'healthy', ...response.data } : a status field of the body wins
checkServerHealth(h) ==
    IF h.kind = "ok" THEN (IF h.status = "" THEN "healthy" ELSE h.status)
    ELSE IF h.kind = "ECONNREFUSED" THEN "offline"
    ELSE IF h.kind = "ECONNABORTED" THEN "timeout"
    ELSE "unhealthy"

\* only the status 'offline' is shown as offline
checkHealthOfflineOnly(h) ==
    IF checkServerHealth(h) = "healthy" THEN "online"
    ELSE IF checkServerHealth(h) = "offline" THEN "offline"
    ELSE "checking"

\* health.status === 'healthy' ? 'online' : 'offline'
checkHealth(h) == IF checkServerHealth(h) = "healthy" THEN "online" ELSE "offline"

\* a call of checkHealth awaiting checkServerHealth: the n-th probe, started
\* `at` ms after the mount
Probe(n, at) == [n |-> n, at |-> at]

----------------------------------------------------------------------------
\* App.jsx: the pitch-deck form

\* lengths of the entries of sampleIdeas
SampleLengths == <<97, 82, 83, 85, 78, 70, 69>>

sampleIdeas == {Idea(0, SampleLengths[k], 0) : k \in 1..MaxSamples}

\* texts a user types into the textarea
TypedIdeas ==
    {Idea(0, 0, 0), Idea(MaxPad, minLength - MaxSlack, MaxPad),
     Idea(0, minLength, 0), Idea(0, maxLength + MaxSlack, 0)}

\* the keys of the "Try Different Style" menu
StyleKeys ==
    <<"data-driven", "storytelling", "technology-focused", "market-opportunity",
      "problem-solving">>

RegenerateStyles == {StyleKeys[k] : k \in 1..MaxStyles}

\* the options of the Presentation Style select
Styles == {"balanced"} \cup RegenerateStyles

isValidOutput ==
    /\ Truthy(output)
    /\ ~loading
    /\ ~Includes(output, "Please enter")
    /\ ~Includes(output, "Failed")
    /\ ~Includes(output, FailureGlyph)
    /\ ~Includes(output, "Analyzing your startup")

\* a tab bar that is rendered on the landing page too
tabsShownAlways == TRUE

\* the tab bar and the tab contents are rendered when the landing page is not
TabsShown == ~showLanding

\* {activeTab === 'logo-branding' && <LogoGenerator businessIdea={businessIdea} />}
LogoGeneratorShown == ~showLanding /\ activeTab = "logo-branding"

LogoGeneratorProps == [businessIdea |-> businessIdea]

FormShown == ~showLanding /\ activeTab = "pitch-deck"

\* a Generate button that stays enabled while loading
generateEnabledWhileLoading == serverStatus # "offline"

\* disabled={loading || serverStatus === 'offline'}
GenerateEnabled == ~(loading \/ serverStatus = "offline")

\* the style buttons are rendered inside {isValidOutput && ...}, disabled={loading}
RegenerateEnabled(style) ==
    isValidOutput /\ style \in RegenerateStyles /\ style # presentationStyle /\ ~loading

NoCall ==
    [handler |-> "none", endpoint |-> "", idea |-> NullIdea, style |-> "",
     originalStyle |-> "", attempt |-> 0, phase |-> "none", waits |-> <<>>,
     result |-> Resolved(Undefined)]

\* generateDetailed ? generateDetailedPitchDeck(...) : generatePitchDeck(...):
\* the request is built and requestFn() is invoked for attempt 1
NewCall(handler, style, originalStyle) ==
    [handler |-> handler,
     endpoint |-> IF generateDetailed THEN "/generate-detailed" ELSE "/generate",
     idea |-> businessIdea, style |-> style, originalStyle |-> originalStyle,
     attempt |-> 1, phase |-> "awaiting", waits |-> <<>>,
     result |-> Resolved(Undefined)]

Remove(seq, k) == SubSeq(seq, 1, k - 1) \o SubSeq(seq, k + 1, Len(seq))

Init ==
    /\ businessIdea = Idea(0, 0, 0)
    /\ output = Str(<<>>)
    /\ loading = FALSE
    /\ serverStatus = "checking"
    /\ presentationStyle = "balanced"
    /\ generateDetailed = FALSE
    /\ showLanding = TRUE
    /\ activeTab = "pitch-deck"
    /\ calls = <<>>
    /\ probeInFlight = TRUE
    /\ trace = <<>>
    /\ lastCall = NoCall
    /\ vIdea = NullIdea
    /\ vResult = <<>>
    /\ now = 0
    /\ sent = <<>>
    /\ clock = 0
    /\ mounted = TRUE
    /\ ticks = 0
    /\ started = 1
    /\ probes = {Probe(1, 0)}
    /\ results = <<>>
    /\ propIdea = Str(<<>>)
    /\ logos = <<>>
    /\ generating = FALSE
    /\ brandPalette = Null
    /\ brandKit = Null
    /\ marketingCopy = Null
    /\ logoError = Null
    /\ nameResult = <<>>
    /\ themeResult = <<>>
    /\ fetchLoading = FALSE
    /\ logoUrl = Null
    /\ fetchPending = FALSE
    /\ loadingMessage = <<>>
    /\ timers = <<>>
    /\ cleared = FALSE

\* onChange of the textarea
EditIdea(i) ==
    /\ FormShown
    /\ i # businessIdea
    /\ businessIdea' = i
    /\ UNCHANGED <<output, loading, serverStatus, presentationStyle,
                   generateDetailed, showLanding, activeTab>>
    /\ UNCHANGED <<calls, probeInFlight, vIdea, vResult>>

handleSampleClick(i) ==
    /\ showLanding \/ FormShown
    /\ businessIdea' = i
    /\ showLanding' = FALSE
    /\ UNCHANGED <<output, loading, serverStatus, presentationStyle,
                   generateDetailed, activeTab>>
    /\ UNCHANGED <<calls, probeInFlight, vIdea, vResult>>

handleGetStarted ==
    /\ showLanding
    /\ showLanding' = FALSE
    /\ UNCHANGED <<businessIdea, output, loading, serverStatus, presentationStyle,
                   generateDetailed, activeTab>>
    /\ UNCHANGED <<calls, probeInFlight, vIdea, vResult>>

\* "Back to Home": setShowLanding(true)
BackToHome ==
    /\ ~showLanding
    /\ showLanding' = TRUE
    /\ UNCHANGED <<businessIdea, output, loading, serverStatus, presentationStyle,
                   generateDetailed, activeTab>>
    /\ UNCHANGED <<calls, probeInFlight, vIdea, vResult>>

setActiveTab(tab) ==
    /\ TabsShown
    /\ tab # activeTab
    /\ activeTab' = tab
    /\ UNCHANGED <<businessIdea, output, loading, serverStatus, presentationStyle,
                   generateDetailed, showLanding>>
    /\ UNCHANGED <<calls, probeInFlight, vIdea, vResult>>

\* onChange of the Presentation Style select
SelectStyle(style) ==
    /\ FormShown
    /\ style # presentationStyle
    /\ presentationStyle' = style
    /\ UNCHANGED <<businessIdea, output, loading, serverStatus,
                   generateDetailed, showLanding, activeTab>>
    /\ UNCHANGED <<calls, probeInFlight, vIdea, vResult>>

\* onChange of the "detailed" checkbox
ToggleDetailed ==
    /\ FormShown
    /\ generateDetailed' = ~generateDetailed
    /\ UNCHANGED <<businessIdea, output, loading, serverStatus, presentationStyle,
                   showLanding, activeTab>>
    /\ UNCHANGED <<calls, probeInFlight, vIdea, vResult>>

handleGenerate ==
    /\ FormShown
    /\ GenerateEnabled
    /\ IF ~validateStartupIdea(businessIdea).isValid
       THEN /\ output' = FailureString(validateStartupIdea(businessIdea).error.s)
            /\ UNCHANGED <<loading, calls>>
       ELSE /\ loading' = TRUE
            /\ output' = Str(<<>>)
            /\ calls' = Append(calls, NewCall("handleGenerate", presentationStyle,
                                              presentationStyle))
    /\ UNCHANGED <<businessIdea, serverStatus, presentationStyle, generateDetailed,
                   showLanding, activeTab, probeInFlight, vIdea, vResult>>

handleRegenerateWithStyle(newStyle) ==
    /\ FormShown
    /\ RegenerateEnabled(newStyle)
    /\ presentationStyle' = newStyle
    /\ loading' = TRUE
    /\ output' = Str(<<>>)
    /\ calls' = Append(calls, NewCall("handleRegenerateWithStyle", newStyle,
                                      presentationStyle))
    /\ UNCHANGED <<businessIdea, serverStatus, generateDetailed, showLanding,
                   activeTab, probeInFlight, vIdea, vResult>>

\* a Clear that also forgets the status of the server
handleClearAllAndStatus ==
    /\ FormShown
    /\ businessIdea' = Idea(0, 0, 0)
    /\ output' = Str(<<>>)
    /\ generateDetailed' = FALSE
    /\ presentationStyle' = "balanced"
    /\ serverStatus' = "checking"
    /\ UNCHANGED <<loading, showLanding, activeTab>>
    /\ UNCHANGED <<calls, probeInFlight, vIdea, vResult>>

\* setIndustry, setTargetAudience, setFundingStage, setBusinessModel and
\* setCompetitorContext write fields that are not part of the state followed
handleClearAll ==
    /\ FormShown
    /\ businessIdea' = Idea(0, 0, 0)
    /\ output' = Str(<<>>)
    /\ generateDetailed' = FALSE
    /\ presentationStyle' = "balanced"
    /\ UNCHANGED <<loading, serverStatus, showLanding, activeTab>>
    /\ UNCHANGED <<calls, probeInFlight, vIdea, vResult>>

\* The copy and export buttons, shown with a valid output.  They write the
\* clipboard, a file or a mail draft, and the fields copySuccess and
\* pdfDownloading, none of which is part of the state followed.
copyToClipboard ==
    /\ FormShown
    /\ isValidOutput
    /\ UNCHANGED <<uiVars, calls, probeInFlight, vIdea, vResult>>

downloadAsTxt ==
    /\ FormShown
    /\ isValidOutput
    /\ UNCHANGED <<uiVars, calls, probeInFlight, vIdea, vResult>>

downloadAsPDF ==
    /\ FormShown
    /\ isValidOutput
    /\ UNCHANGED <<uiVars, calls, probeInFlight, vIdea, vResult>>

shareViaEmail ==
    /\ FormShown
    /\ isValidOutput
    /\ UNCHANGED <<uiVars, calls, probeInFlight, vIdea, vResult>>

\* the continuation of a handler after `await generate...PitchDeck(...)`:
\* setOutput(result), or the catch block; then finally
HandlerOutput(call, result) ==
    IF result.rejected
    THEN IF call.handler = "handleGenerate"
         THEN Str(<<FailureGlyph, " ", "Failed",
                    " to generate pitch deck. Please try again or check your connection.">>)
         ELSE Str(<<FailureGlyph, " ", "Failed",
                    " to regenerate pitch deck. Please try again.">>)
    ELSE result.value

HandlerStyle(call, result) ==
    IF result.rejected /\ call.handler = "handleRegenerateWithStyle"
    THEN call.originalStyle
    ELSE presentationStyle

\* what the retry loop of call k does with the answer o
Step(k, o) == retryRequest(calls[k].attempt, makeRequest(o, calls[k].endpoint))

\* call k as it ends on the answer o
Finished(k, o) ==
    [calls[k] EXCEPT !.phase = "done",
                     !.result = generatePitchDeck(makeRequest(o, calls[k].endpoint))]

\* the transport answers the pending request of call k
TransportRespond(k, o) ==
    /\ k \in 1..Len(calls)
    /\ calls[k].phase = "awaiting"
    /\ IF Step(k, o).next = "wait"
       THEN /\ calls' = [calls EXCEPT
                           ![k].phase = "backoff",
                           ![k].waits = Append(calls[k].waits, Step(k, o).wait)]
            /\ UNCHANGED <<output, loading, presentationStyle>>
       ELSE /\ calls' = Remove(calls, k)
            /\ output' = HandlerOutput(calls[k], Finished(k, o).result)
            /\ presentationStyle' = HandlerStyle(calls[k], Finished(k, o).result)
            /\ loading' = FALSE
    /\ UNCHANGED <<businessIdea, serverStatus, generateDetailed, showLanding,
                   activeTab, probeInFlight, vIdea, vResult>>

\* setTimeout(resolve, delay * attempt) fires: the loop invokes requestFn() again
BackoffElapsed(k) ==
    /\ k \in 1..Len(calls)
    /\ calls[k].phase = "backoff"
    /\ calls' = [calls EXCEPT ![k].phase = "awaiting",
                              ![k].attempt = calls[k].attempt + 1]
    /\ UNCHANGED <<uiVars, probeInFlight, vIdea, vResult>>

\* setInterval(checkHealth, 30000): a probe ends within its 10 s timeout
HealthTick ==
    /\ ~probeInFlight
    /\ probeInFlight' = TRUE
    /\ UNCHANGED <<uiVars, calls, vIdea, vResult>>

ProbeComplete(h) ==
    /\ probeInFlight
    /\ probeInFlight' = FALSE
    /\ serverStatus' = checkHealth(h)
    /\ UNCHANGED <<businessIdea, output, loading, presentationStyle,
                   generateDetailed, showLanding, activeTab, calls, vIdea, vResult>>

\* The application: the form, the generation calls and the health prober
Next ==
    \/ \E i \in TypedIdeas : EditIdea(i) /\ UNCHANGED <<hist, aside>>
    \/ \E i \in sampleIdeas : handleSampleClick(i) /\ UNCHANGED <<hist, aside>>
    \/ handleGetStarted /\ UNCHANGED <<hist, aside>>
    \/ BackToHome /\ UNCHANGED <<hist, aside>>
    \/ \E tab \in {"pitch-deck", "logo-branding"} : setActiveTab(tab) /\ UNCHANGED <<hist, aside>>
    \/ \E style \in Styles : SelectStyle(style) /\ UNCHANGED <<hist, aside>>
    \/ ToggleDetailed /\ UNCHANGED <<hist, aside>>
    \/ handleGenerate /\ UNCHANGED <<hist, aside>>
    \/ \E style \in RegenerateStyles : handleRegenerateWithStyle(style) /\ UNCHANGED <<hist, aside>>
    \/ handleClearAll /\ UNCHANGED <<hist, aside>>
    \/ copyToClipboard /\ UNCHANGED <<hist, aside>>
    \/ downloadAsTxt /\ UNCHANGED <<hist, aside>>
    \/ downloadAsPDF /\ UNCHANGED <<hist, aside>>
    \/ shareViaEmail /\ UNCHANGED <<hist, aside>>
    \/ \E k \in 1..Len(calls), o \in Answers : TransportRespond(k, o) /\ UNCHANGED <<hist, aside>>
    \/ \E k \in 1..Len(calls) : BackoffElapsed(k) /\ UNCHANGED <<hist, aside>>
    \/ HealthTick /\ UNCHANGED <<hist, aside>>
    \/ \E h \in HealthAnswers : ProbeComplete(h) /\ UNCHANGED <<hist, aside>>

Spec == Init /\ [][Next]_vars

----------------------------------------------------------------------------
\* The generation client observed with its history: a generation is started from
\* the form, and every transport answer of the call is recorded.

StartTrace == trace' = <<>> /\ lastCall' = NoCall

ClientRespond(k, o) ==
    /\ TransportRespond(k, o)
    /\ trace' = Append(trace, o)
    /\ lastCall' = IF Step(k, o).next = "wait" THEN lastCall ELSE Finished(k, o)
    /\ UNCHANGED aside

ClientNext ==
    \/ \E i \in sampleIdeas : handleSampleClick(i) /\ UNCHANGED <<hist, aside>>
    \/ ToggleDetailed /\ UNCHANGED <<hist, aside>>
    \/ handleGenerate /\ StartTrace /\ UNCHANGED aside
    \/ \E style \in RegenerateStyles : handleRegenerateWithStyle(style) /\ StartTrace
                                        /\ UNCHANGED aside
    \/ \E k \in 1..Len(calls), o \in Answers : ClientRespond(k, o)
    \/ \E k \in 1..Len(calls) : BackoffElapsed(k) /\ UNCHANGED <<hist, aside>>

ClientSpec == Init /\ [][ClientNext]_vars

----------------------------------------------------------------------------
\* validateStartupIdea called on its own

\* text lengths around 0 and around both limits of the validator
CoreLengths ==
    (0..MaxSlack)
    \cup ((minLength - MaxSlack)..(minLength + MaxSlack))
    \cup ((maxLength - MaxSlack - 2 * MaxPad)..(maxLength + MaxSlack))

ValidateInputs ==
    {NullIdea}
    \cup {Idea(l, c, t) : l \in 0..MaxPad, c \in CoreLengths, t \in 0..MaxPad}

ValidateInit ==
    /\ Init!1 /\ Init!2 /\ Init!3 /\ Init!4 /\ Init!5 /\ Init!6 /\ Init!7
    /\ Init!8 /\ Init!9 /\ Init!10 /\ Init!11 /\ Init!12
    /\ Init!15 /\ Init!16 /\ Init!17 /\ Init!18 /\ Init!19 /\ Init!20
    /\ Init!21 /\ Init!22 /\ Init!23 /\ Init!24 /\ Init!25 /\ Init!26
    /\ Init!27 /\ Init!28 /\ Init!29 /\ Init!30 /\ Init!31 /\ Init!32
    /\ Init!33 /\ Init!34 /\ Init!35 /\ Init!36 /\ Init!37
    /\ vIdea \in ValidateInputs
    /\ vResult = <<>>

CallValidate ==
    /\ vResult = <<>>
    /\ vResult' = <<validateStartupIdea(vIdea)>>
    /\ UNCHANGED <<uiVars, calls, probeInFlight, trace, lastCall, vIdea>>
    /\ UNCHANGED aside

ValidateNext == CallValidate

ValidateSpec == ValidateInit /\ [][ValidateNext]_vars

----------------------------------------------------------------------------
\* The request builder on its own: requestData of generatePitchDeck, fed by
\* direct calls and by the options objects of the two handlers of App.jsx

\* `options = {}`: every field is missing
NoOptions ==
    [target_audience |-> Undefined, industry |-> Undefined,
     funding_stage |-> Undefined, presentation_style |-> Undefined,
     business_model |-> Undefined, competitor_context |-> Undefined,
     request_id |-> Undefined]

\* every field is present and is ''
EmptyOptions ==
    [target_audience |-> Str(<<>>), industry |-> Str(<<>>),
     funding_stage |-> Str(<<>>), presentation_style |-> Str(<<>>),
     business_model |-> Str(<<>>), competitor_context |-> Str(<<>>),
     request_id |-> Str(<<>>)]

\* options objects handed to the builder directly
DirectOptions ==
    {NoOptions, EmptyOptions, [NoOptions EXCEPT !.industry = Null,
                                                !.funding_stage = Str(<<"series-a">>)]}

\* the builder without its defaults: the options are sent as they come
requestDataAsGiven(idea, options, ms) ==
    [idea |-> idea,
     target_audience |-> options.target_audience,
     industry |-> options.industry,
     funding_stage |-> options.funding_stage,
     presentation_style |-> options.presentation_style,
     business_model |-> options.business_model,
     competitor_context |-> options.competitor_context,
     request_id |-> options.request_id]

\* const requestData = {...}; `ms` is Date.now()
requestData(idea, options, ms) ==
    [idea |-> idea,
     target_audience |-> OrElse(options.target_audience, Str(<<"general investors">>)),
     industry |-> OrElse(options.industry, Null),
     funding_stage |-> OrElse(options.funding_stage, Str(<<"seed">>)),
     presentation_style |-> OrElse(options.presentation_style, Str(<<"balanced">>)),
     business_model |-> OrElse(options.business_model, Null),
     competitor_context |-> OrElse(options.competitor_context, Null),
     request_id |-> OrElse(options.request_id, Str(<<ToString(ms)>>))]

\* the select and input fields of the form that go into the options
InitialForm ==
    [targetAudience |-> Str(<<"general investors">>),
     industry |-> Str(<<"Technology">>),
     fundingStage |-> Str(<<"Pre-Seed">>),
     businessModel |-> Str(<<"B2C">>),
     competitorContext |-> Str(<<>>)]

\* the same fields after handleClearAll
ClearedForm ==
    [targetAudience |-> Str(<<"general investors">>),
     industry |-> Str(<<>>),
     fundingStage |-> Str(<<"seed">>),
     businessModel |-> Str(<<>>),
     competitorContext |-> Str(<<>>)]

Forms == {InitialForm, ClearedForm}

\* Math.random().toString(36).substr(2, 9): '' for 0, 'i' for 0.5, nine digits
\* in base 36 for most numbers
RandomSuffixes == {"", "i", "4fzyo82mv"}

\* const options = {...} of handleGenerate
generateOptions(form, style, ms, suffix) ==
    [target_audience |-> form.targetAudience,
     industry |-> OrElse(form.industry, Null),
     funding_stage |-> form.fundingStage,
     presentation_style |-> Str(<<style>>),
     business_model |-> OrElse(form.businessModel, Null),
     competitor_context |-> OrElse(form.competitorContext, Null),
     request_id |-> Str(<<ToString(ms), "_", suffix>>)]

\* const options = {...} of handleRegenerateWithStyle
regenerateOptions(form, newStyle, ms, suffix) ==
    [generateOptions(form, newStyle, ms, suffix) EXCEPT
        !.request_id = Str(<<ToString(ms), "_", newStyle, "_", suffix>>)]

\* 'A mobile app for dog walking services'
DogWalkingIdea == Idea(0, 37, 0)

\* ideas handed to the builder directly: it is called whatever the idea is
RequestIdeas == {DogWalkingIdea, Idea(0, 0, 0), NullIdea}

\* generatePitchDeck(idea, options) builds its request
CallBuilder(idea, options) ==
    /\ Len(sent) < MaxRequests
    /\ sent' = Append(sent, [idea |-> idea, options |-> options,
                             request |-> requestData(idea, options, now)])
    /\ UNCHANGED <<now, uiVars, calls, probeInFlight, hist, vIdea, vResult, probeVars, logoVars, loadVars>>

\* handleGenerate builds its options and calls the builder
GenerateBuilds(form, style, suffix) ==
    CallBuilder(DogWalkingIdea, generateOptions(form, style, now, suffix))

\* handleRegenerateWithStyle builds its options and calls the builder
RegenerateBuilds(form, newStyle, suffix) ==
    CallBuilder(DogWalkingIdea, regenerateOptions(form, newStyle, now, suffix))

\* a millisecond passes
ClockAdvance ==
    /\ now < MaxClock
    /\ now' = now + 1
    /\ UNCHANGED <<sent, uiVars, calls, probeInFlight, hist, vIdea, vResult, probeVars, logoVars, loadVars>>

RequestNext ==
    \/ \E idea \in RequestIdeas, options \in DirectOptions : CallBuilder(idea, options)
    \/ \E form \in Forms, style \in Styles, suffix \in RandomSuffixes :
            GenerateBuilds(form, style, suffix)
    \/ \E form \in Forms, style \in RegenerateStyles, suffix \in RandomSuffixes :
            RegenerateBuilds(form, style, suffix)
    \/ ClockAdvance

RequestSpec == Init /\ [][RequestNext]_vars

----------------------------------------------------------------------------
\* The health effect of App.jsx on a time line: checkHealth() at mount, then
\* setInterval(checkHealth, 30000), every probe bounded by the timeout of
\* axios.get, and clearInterval at teardown.  Timers fire when they are due.

\* setInterval(checkHealth, 30000)
healthInterval == 30000

\* a probe that may outlast the interval
timeoutBeyondInterval == healthInterval + healthInterval

\* axios.get(..., { timeout: 10000 })
healthTimeout == 10000

\* when the interval fires next, and when the timeout of a probe fires
IntervalDue == (ticks + 1) * healthInterval

Deadline(p) == p.at + healthTimeout

Horizon == MaxTicks * healthInterval + healthTimeout

Min(S) == CHOOSE x \in S : \A y \in S : x <= y

\* time passes, up to the next timer that is due
TimePasses ==
    /\ clock < Horizon
    /\ mounted => clock < IntervalDue
    /\ \A p \in probes : clock < Deadline(p)
    /\ clock' = Min({clock + TimeStep, Horizon}
                    \cup (IF mounted THEN {IntervalDue} ELSE {})
                    \cup {Deadline(p) : p \in probes})
    /\ UNCHANGED <<mounted, ticks, started, probes, results>>
    /\ UNCHANGED <<uiVars, calls, probeInFlight, hist, vIdea, vResult, reqVars, logoVars, loadVars>>

\* the interval fires although the component is gone
intervalFiresAfterTeardown ==
    /\ clock = IntervalDue
    /\ ticks' = ticks + 1
    /\ started' = started + 1
    /\ probes' = probes \cup {Probe(started + 1, clock)}
    /\ probeInFlight' = TRUE
    /\ UNCHANGED <<clock, mounted, results>>
    /\ UNCHANGED <<uiVars, calls, hist, vIdea, vResult, reqVars, logoVars, loadVars>>

\* the interval fires: checkHealth() starts a probe
IntervalFires ==
    /\ mounted
    /\ clock = IntervalDue
    /\ ticks' = ticks + 1
    /\ started' = started + 1
    /\ probes' = probes \cup {Probe(started + 1, clock)}
    /\ probeInFlight' = TRUE
    /\ UNCHANGED <<clock, mounted, results>>
    /\ UNCHANGED <<uiVars, calls, hist, vIdea, vResult, reqVars, logoVars, loadVars>>

\* checkServerHealth() of probe p resolves, on answer h of the transport or on
\* the timeout, and checkHealth sets the status; a component that is gone
\* has no status to set.  The completion is recorded with the number of the
\* probe started last.
ProbeAnswers(p, h) ==
    /\ p \in probes
    /\ IF h.kind = "ECONNABORTED" THEN clock = Deadline(p) ELSE clock < Deadline(p)
    /\ probes' = probes \ {p}
    /\ probeInFlight' = (probes' # {})
    /\ serverStatus' = IF mounted THEN checkHealth(h) ELSE serverStatus
    /\ results' = Append(results, [n |-> p.n, latest |-> started, answer |-> h,
                                   status |-> checkServerHealth(h)])
    /\ UNCHANGED <<clock, mounted, ticks, started>>
    /\ UNCHANGED <<businessIdea, output, loading, presentationStyle,
                   generateDetailed, showLanding, activeTab>>
    /\ UNCHANGED <<calls, hist, vIdea, vResult, reqVars, logoVars, loadVars>>

\* the cleanup of the effect: clearInterval(interval)
Teardown ==
    /\ mounted
    /\ mounted' = FALSE
    /\ UNCHANGED <<clock, ticks, started, probes, results>>
    /\ UNCHANGED <<uiVars, calls, probeInFlight, hist, vIdea, vResult, reqVars, logoVars, loadVars>>

HealthNext ==
    \/ TimePasses
    \/ IntervalFires
    \/ \E p \in probes, h \in HealthAnswers : ProbeAnswers(p, h)
    \/ Teardown

HealthSpec == Init /\ [][HealthNext]_vars

----------------------------------------------------------------------------
\* components/LogoGenerator.jsx.  Texts are sequences of characters here, so
\* that toLowerCase, split, includes, trim and substring are computed.

Uppers ==
    <<"A", "B", "C", "D", "E", "F", "G", "H", "I", "J", "K", "L", "M",
        "N", "O", "P", "Q", "R", "S", "T", "U", "V", "W", "X", "Y", "Z">>

Lowers ==
    <<"a", "b", "c", "d", "e", "f", "g", "h", "i", "j", "k", "l", "m",
        "n", "o", "p", "q", "r", "s", "t", "u", "v", "w", "x", "y", "z">>

\* String.prototype.toLowerCase / toUpperCase
toLowerCaseChar(c) ==
    IF \E i \in 1..Len(Uppers) : Uppers[i] = c
    THEN Lowers[CHOOSE i \in 1..Len(Uppers) : Uppers[i] = c]
    ELSE c

toUpperCaseChar(c) ==
    IF \E i \in 1..Len(Lowers) : Lowers[i] = c
    THEN Uppers[CHOOSE i \in 1..Len(Lowers) : Lowers[i] = c]
    ELSE c

toLowerCase(s) == [i \in 1..Len(s) |-> toLowerCaseChar(s[i])]

\* the positions at which k occurs in s
Occurrences(s, k) ==
    {i \in 1..(Len(s) - Len(k) + 1) : SubSeq(s, i, i + Len(k) - 1) = k}

\* s.includes(k)
includesText(s, k) == Occurrences(s, k) # {}

\* s.split(sep), for a separator that is not empty
RECURSIVE split(_, _)
split(s, sep) ==
    IF Occurrences(s, sep) = {} THEN <<s>>
    ELSE LET i == Min(Occurrences(s, sep)) IN
         <<SubSeq(s, 1, i - 1)>> \o split(SubSeq(s, i + Len(sep), Len(s)), sep)

\* s.trim() === ''
isBlankText(s) == \A i \in 1..Len(s) : s[i] = " "

\* a number that is not zero, e.g. 42
Number == [t |-> "number", s |-> <<>>]

\* ToBoolean of the values an idea can be
TruthyValue(v) == Truthy(v) \/ v = Number

\* word.length > 3 && !['that', 'helps', 'using', 'with', 'for', 'and', 'the'].includes(word)
IsKeyWord(word) ==
    /\ Len(word) > 3
    /\ word \notin {<<"t", "h", "a", "t">>, <<"h", "e", "l", "p", "s">>, <<"u", "s", "i", "n", "g">>, <<"w", "i", "t", "h">>, <<"f", "o", "r">>, <<"a", "n", "d">>, <<"t", "h", "e">>}

\* extractCompanyName(businessIdea)
extractCompanyName(idea) ==
    IF ~TruthyValue(idea) \/ ~IsString(idea) THEN <<"S", "t", "a", "r", "t", "u", "p", "A", "I">>
    ELSE LET words == split(toLowerCase(idea.s), <<" ">>)
             keyWords == SelectSeq(words, IsKeyWord)
         IN  IF Len(keyWords) > 0
             THEN <<toUpperCaseChar(keyWords[1][1])>> \o Tail(keyWords[1]) \o <<"A", "I">>
             ELSE <<"S", "t", "a", "r", "t", "u", "p", "A", "I">>

\* the themes of determineTheme; the icons are named, they are the emoji
\* U+1F3E5, U+1F37D, U+1F4DA, U+1F4B0 and U+26A1
HealthTheme ==
    [colors |-> [primary |-> <<"#", "1", "0", "B", "9", "8", "1">>, secondary |-> <<"#", "D", "1", "F", "A", "E", "5">>,
                 accent |-> <<"#", "0", "5", "9", "6", "6", "9">>, gradient |-> <<<<"#", "1", "0", "B", "9", "8", "1">>, <<"#", "3", "4", "D", "3", "9", "9">>>>],
     icon |-> "hospital",
     typography |-> [heading |-> "Inter, system-ui, sans-serif",
                     body |-> "Inter, system-ui, sans-serif",
                     accent |-> "Poppins, sans-serif"]]

FoodTheme ==
    [colors |-> [primary |-> <<"#", "F", "9", "7", "3", "1", "6">>, secondary |-> <<"#", "F", "E", "D", "7", "A", "A">>,
                 accent |-> <<"#", "E", "A", "5", "8", "0", "C">>, gradient |-> <<<<"#", "F", "9", "7", "3", "1", "6">>, <<"#", "F", "B", "9", "2", "3", "C">>>>],
     icon |-> "plate",
     typography |-> [heading |-> "Poppins, sans-serif",
                     body |-> "Open Sans, sans-serif",
                     accent |-> "Playfair Display, serif"]]

EducationTheme ==
    [colors |-> [primary |-> <<"#", "3", "B", "8", "2", "F", "6">>, secondary |-> <<"#", "D", "B", "E", "A", "F", "E">>,
                 accent |-> <<"#", "1", "D", "4", "E", "D", "8">>, gradient |-> <<<<"#", "3", "B", "8", "2", "F", "6">>, <<"#", "6", "0", "A", "5", "F", "A">>>>],
     icon |-> "books",
     typography |-> [heading |-> "Poppins, sans-serif",
                     body |-> "Source Sans Pro, sans-serif",
                     accent |-> "Merriweather, serif"]]

FinanceTheme ==
    [colors |-> [primary |-> <<"#", "1", "F", "2", "9", "3", "7">>, secondary |-> <<"#", "F", "3", "F", "4", "F", "6">>,
                 accent |-> <<"#", "1", "0", "B", "9", "8", "1">>, gradient |-> <<<<"#", "1", "F", "2", "9", "3", "7">>, <<"#", "3", "7", "4", "1", "5", "1">>>>],
     icon |-> "money bag",
     typography |-> [heading |-> "Inter, system-ui, sans-serif",
                     body |-> "Inter, system-ui, sans-serif",
                     accent |-> "IBM Plex Sans, sans-serif"]]

TechTheme ==
    [colors |-> [primary |-> <<"#", "6", "3", "6", "6", "F", "1">>, secondary |-> <<"#", "E", "0", "E", "7", "F", "F">>,
                 accent |-> <<"#", "4", "F", "4", "6", "E", "5">>, gradient |-> <<<<"#", "6", "3", "6", "6", "F", "1">>, <<"#", "8", "B", "5", "C", "F", "6">>>>],
     icon |-> "high voltage",
     typography |-> [heading |-> "Inter, system-ui, sans-serif",
                     body |-> "Inter, system-ui, sans-serif",
                     accent |-> "JetBrains Mono, monospace"]]

\* ideaLower.includes(a) || ideaLower.includes(b) || ideaLower.includes(c)
includesAny(s, keywords) == \E k \in keywords : includesText(s, k)

\* a theme lookup that tries the food keywords before the health keywords
determineThemeFoodFirst(idea) ==
    LET ideaLower == IF ~TruthyValue(idea) \/ ~IsString(idea) THEN <<>>
                     ELSE toLowerCase(idea.s)
    IN  IF includesAny(ideaLower, {<<"f", "o", "o", "d">>, <<"r", "e", "s", "t", "a", "u", "r", "a", "n", "t">>, <<"d", "e", "l", "i", "v", "e", "r", "y">>})
        THEN FoodTheme
        ELSE IF includesAny(ideaLower, {<<"h", "e", "a", "l", "t", "h">>, <<"m", "e", "d", "i", "c", "a", "l">>, <<"f", "i", "t", "n", "e", "s", "s">>})
        THEN HealthTheme
        ELSE IF includesAny(ideaLower, {<<"e", "d", "u", "c", "a", "t", "i", "o", "n">>, <<"l", "e", "a", "r", "n", "i", "n", "g">>, <<"s", "t", "u", "d", "e", "n", "t">>})
        THEN EducationTheme
        ELSE IF includesAny(ideaLower, {<<"f", "i", "n", "a", "n", "c", "e">>, <<"f", "i", "n", "t", "e", "c", "h">>, <<"p", "a", "y", "m", "e", "n", "t">>})
        THEN FinanceTheme
        ELSE TechTheme

\* determineTheme(businessIdea, industry): a falsy or non-string idea is
\* replaced by ''; the industry is not looked at
determineTheme(idea) ==
    LET ideaLower == IF ~TruthyValue(idea) \/ ~IsString(idea) THEN <<>>
                     ELSE toLowerCase(idea.s)
    IN  IF includesAny(ideaLower, {<<"h", "e", "a", "l", "t", "h">>, <<"m", "e", "d", "i", "c", "a", "l">>, <<"f", "i", "t", "n", "e", "s", "s">>})
        THEN HealthTheme
        ELSE IF includesAny(ideaLower, {<<"f", "o", "o", "d">>, <<"r", "e", "s", "t", "a", "u", "r", "a", "n", "t">>, <<"d", "e", "l", "i", "v", "e", "r", "y">>})
        THEN FoodTheme
        ELSE IF includesAny(ideaLower, {<<"e", "d", "u", "c", "a", "t", "i", "o", "n">>, <<"l", "e", "a", "r", "n", "i", "n", "g">>, <<"s", "t", "u", "d", "e", "n", "t">>})
        THEN EducationTheme
        ELSE IF includesAny(ideaLower, {<<"f", "i", "n", "a", "n", "c", "e">>, <<"f", "i", "n", "t", "e", "c", "h">>, <<"p", "a", "y", "m", "e", "n", "t">>})
        THEN FinanceTheme
        ELSE TechTheme

\* hexToRgb(hex): /^#?([a-f\d]{2})([a-f\d]{2})([a-f\d]{2})$/i, then parseInt(.., 16)
hexToRgb(hex) ==
    LET HexDigits == <<"0", "1", "2", "3", "4", "5", "6", "7", "8", "9", "a", "b", "c",
        "d", "e", "f">>
        IsHexDigit(c) == \E i \in 1..16 : HexDigits[i] = toLowerCaseChar(c)
        HexValue(c) == (CHOOSE i \in 1..16 : HexDigits[i] = toLowerCaseChar(c)) - 1
        digits == IF Len(hex) > 0 /\ hex[1] = "#" THEN Tail(hex) ELSE hex
    IN  IF Len(digits) = 6 /\ \A i \in 1..6 : IsHexDigit(digits[i])
        THEN [r |-> 16 * HexValue(digits[1]) + HexValue(digits[2]),
              g |-> 16 * HexValue(digits[3]) + HexValue(digits[4]),
              b |-> 16 * HexValue(digits[5]) + HexValue(digits[6])]
        ELSE Null

\* a logo entry whose design carries no markup
logoWithEmptyDesign(id, style, type, design, colors) ==
    [id |-> id, style |-> style, type |-> type,
     design |-> [type |-> design.type, content |-> <<>>], colors |-> colors]

Logo(id, style, type, design, colors) ==
    [id |-> id, style |-> style, type |-> type, design |-> design, colors |-> colors]

\* generateLogoStyles(businessIdea, industry, businessModel), after its 2000 ms,
\* with the five SVG generators it calls; their markup is cut into fragments
\* around the values that are filled in
generateLogoStyles(idea) ==
    LET companyName == extractCompanyName(idea)
        theme == determineTheme(idea)
        c == theme.colors
        generateTextLogo(name, style, color) ==
            [type |-> "svg",
             content |-> <<"<svg><text fill=", color, ">", name, "</text></svg>">>]
        generateCombinationLogo(name, icon, color) ==
            [type |-> "svg",
             content |-> <<"<svg><circle fill=", color, "/><text>", icon,
                           "</text><text fill=", color, ">", name, "</text></svg>">>]
        generateSymbolLogo(icon, gradient) ==
            [type |-> "svg",
             content |-> <<"<svg><linearGradient><stop stop-color=", gradient[1],
                           "/><stop stop-color=", gradient[2],
                           "/></linearGradient><circle/><text>", icon, "</text></svg>">>]
        generateBadgeLogo(name, primary, secondary) ==
            LET initials == [i \in 1..Min({2, Len(name)}) |-> toUpperCaseChar(name[i])]
            IN  [type |-> "svg",
                 content |-> <<"<svg><circle fill=", primary, " stroke=", secondary,
                               "/><text>", initials, "</text><text>",
                               split(name, <<"A", "I">>)[1], "</text></svg>">>]
        generateGeometricLogo(name, color) ==
            [type |-> "svg",
             content |-> <<"<svg><polygon fill=", color, "/><text fill=", color, ">",
                           name, "</text></svg>">>]
    IN  <<Logo(1, <<"M", "o", "d", "e", "r", "n", " ", "M", "i", "n", "i", "m", "a",
        "l", "i", "s", "t">>, "text",
               generateTextLogo(companyName, "minimalist", c.primary),
               <<c.primary, c.secondary>>),
          Logo(2, <<"I", "c", "o", "n", " ", "+", " ", "T", "e", "x", "t">>, "combination",
               generateCombinationLogo(companyName, theme.icon, c.primary),
               <<c.primary, c.accent>>),
          Logo(3, <<"A", "b", "s", "t", "r", "a", "c", "t", " ", "S", "y", "m", "b",
        "o", "l">>, "symbol",
               generateSymbolLogo(theme.icon, c.gradient),
               c.gradient),
          Logo(4, <<"B", "a", "d", "g", "e", " ", "S", "t", "y", "l", "e">>, "badge",
               generateBadgeLogo(companyName, c.primary, c.secondary),
               <<c.primary, c.secondary, <<"#", "f", "f", "f", "f", "f", "f">>>>),
          Logo(5, <<"G", "e", "o", "m", "e", "t", "r", "i", "c", " ", "S", "h", "a",
        "p", "e">>, "geometric",
               generateGeometricLogo(companyName, c.primary),
               c.gradient)>>

\* generateBrandPalette(businessIdea, industry)
generateBrandPalette(idea) ==
    LET theme == determineTheme(idea)
        PaletteColor(name, hex) == [name |-> name, hex |-> hex, rgb |-> hexToRgb(hex)]
    IN  [primary |-> PaletteColor("Primary", theme.colors.primary),
         secondary |-> PaletteColor("Secondary", theme.colors.secondary),
         accent |-> PaletteColor("Accent", theme.colors.accent),
         neutral |-> PaletteColor("Neutral", <<"#", "6", "B", "7", "2", "8", "0">>),
         typography |-> theme.typography]

\* generateBrandKit(businessIdea, industry, businessModel): the same kit for
\* every idea
generateBrandKit(idea) ==
    [brandValues |-> <<"Innovation", "Reliability", "User-Centric Design",
                       "Transparency", "Growth-Oriented">>,
     brandVoice |-> [tone |-> "Professional yet approachable"],
     logoVariations |-> <<"Primary Logo", "Icon Only", "Horizontal Layout",
                          "Stacked Layout", "Monochrome">>,
     applicationSuggestions |-> <<"Business Cards", "Website Header",
                                  "Social Media Profile", "App Icon",
                                  "Email Signature">>]

\* generateMarketingCopy(businessIdea, palette)
generateMarketingCopy(idea) ==
    LET companyName == extractCompanyName(idea) IN
    [taglines |-> <<<<companyName, " - Where Innovation Meets Opportunity">>,
                    <<"Transforming Ideas Into Reality">>,
                    <<"Building Tomorrow, Today">>,
                    <<"Your Success, Our Mission">>>>,
     headlines |-> <<"Revolutionizing the Way You Work",
                     "The Future of Business Innovation",
                     "Simplifying Complex Solutions",
                     "Empowering Your Business Growth">>,
     descriptions |-> [short |-> <<companyName, " provides innovative solutions">>,
                       medium |-> <<companyName, " is a cutting-edge platform">>,
                       long |-> <<"At ", companyName, ", we believe">>],
     callToActions |-> <<"Get Started Today", "Transform Your Business",
                         "Join Thousands of Success Stories",
                         "Start Your Free Trial", "Discover the Difference">>]

\* !businessIdea || businessIdea.trim() === ''
IsBlankIdea(idea) == ~TruthyValue(idea) \/ isBlankText(idea.s)

\* the ideas the component and its helpers are given: the inputs of the test
\* tables, ideas with keywords of two themes, upper case, blanks, stop words,
\* null, undefined and a number
LogoIdeas ==
    {Str(<<"A", " ", "m", "o", "b", "i", "l", "e", " ", "a", "p", "p", " ",
        "f", "o", "r", " ", "d", "o", "g", " ", "w", "a", "l", "k", "i",
        "n", "g">>),
     Str(<<"A", "I", "-", "p", "o", "w", "e", "r", "e", "d", " ", "f", "i",
        "t", "n", "e", "s", "s", " ", "p", "l", "a", "t", "f", "o", "r",
        "m">>),
     Str(<<"h", "e", "a", "l", "t", "h", " ", "a", "p", "p", " ", "f", "o",
        "r", " ", "s", "e", "n", "i", "o", "r", "s">>),
     Str(<<"f", "o", "o", "d", " ", "d", "e", "l", "i", "v", "e", "r", "y",
        " ", "s", "e", "r", "v", "i", "c", "e">>),
     Str(<<"b", "l", "o", "c", "k", "c", "h", "a", "i", "n", " ", "p", "l",
        "a", "t", "f", "o", "r", "m">>),
     Str(<<>>), Null, Undefined,
     Str(<<"F", "i", "t", "n", "e", "s", "s", " ", "f", "o", "o", "d", " ",
        "d", "e", "l", "i", "v", "e", "r", "y">>),
     Str(<<"S", "t", "u", "d", "e", "n", "t", " ", "p", "a", "y", "m", "e",
        "n", "t", " ", "a", "p", "p">>),
     Str(<<"R", "e", "s", "t", "a", "u", "r", "a", "n", "t", " ", "l", "e",
        "a", "r", "n", "i", "n", "g", " ", "h", "u", "b">>),
     Str(<<"F", "i", "n", "T", "e", "c", "h">>),
     Str(<<"M", "E", "D", "I", "C", "A", "L", " ", "r", "e", "c", "o", "r",
        "d", "s">>),
     Str(<<"e", "d", "u", "c", "a", "t", "i", "o", "n", " ", "f", "o", "r",
        " ", "a", "l", "l">>),
     Str(<<"f", "i", "n", "a", "n", "c", "e", " ", "t", "r", "a", "c", "k",
        "e", "r">>),
     Str(<<"t", "h", "e", " ", "a", "p", "p", " ", "f", "o", "r", " ", "y",
        "o", "u">>),
     Str(<<"t", "h", "a", "t", " ", "h", "e", "l", "p", "s", " ", "w", "i",
        "t", "h", " ", "u", "s", "i", "n", "g">>),
     Str(<<"O", "n", "l", "i", "n", "e", " ", " ", "p", "a", "y", "m", "e",
        "n", "t">>),
     Str(<<" ", " ", " ">>),
     Number}

LogoInit ==
    /\ Init!1 /\ Init!2 /\ Init!3 /\ Init!4 /\ Init!5 /\ Init!6
    /\ Init!7 /\ Init!8 /\ Init!9 /\ Init!10 /\ Init!11 /\ Init!12
    /\ Init!13 /\ Init!14 /\ Init!15 /\ Init!16 /\ Init!17 /\ Init!18
    /\ Init!19 /\ Init!20 /\ Init!21 /\ Init!22
    /\ propIdea \in LogoIdeas
    /\ Init!24 /\ Init!25 /\ Init!26 /\ Init!27 /\ Init!28 /\ Init!29
    /\ Init!30 /\ Init!31 /\ Init!32 /\ Init!33 /\ Init!34 /\ Init!35
    /\ Init!36 /\ Init!37

\* generateLogos up to its first await; the button carries disabled={generating};
\* for an idea that is not a string, businessIdea.trim is not a function and the
\* handler throws before any state is set
generateLogos ==
    /\ ~generating
    /\ IF IsBlankIdea(propIdea) \/ ~IsString(propIdea)
       THEN UNCHANGED <<generating, logoError>>
       ELSE /\ generating' = TRUE
            /\ logoError' = Null
    /\ UNCHANGED <<propIdea, logos, brandPalette, brandKit, marketingCopy,
                   nameResult, themeResult, fetchLoading, logoUrl, fetchPending>>

\* generateLogos from the moment generateLogoStyles resolves: try, catch, finally
LogoStylesResolve ==
    /\ generating
    /\ LET logoStyles == generateLogoStyles(propIdea) IN
       IF Len(logoStyles) = 0
       THEN /\ logoError' = Str(<<"Failed to generate logos: ", "No logos were generated">>)
            /\ logos' = <<>>
            /\ brandPalette' = Null
            /\ UNCHANGED <<brandKit, marketingCopy>>
       ELSE /\ logos' = logoStyles
            /\ brandPalette' = generateBrandPalette(propIdea)
            /\ brandKit' = generateBrandKit(propIdea)
            /\ marketingCopy' = generateMarketingCopy(propIdea)
            /\ UNCHANGED logoError
    /\ generating' = FALSE
    /\ UNCHANGED <<propIdea, nameResult, themeResult, fetchLoading, logoUrl, fetchPending>>

\* the helpers called on their own, as testExtractCompanyName and
\* testDetermineTheme do
CallExtractCompanyName ==
    /\ nameResult' = <<extractCompanyName(propIdea)>>
    /\ UNCHANGED <<propIdea, logos, generating, brandPalette, brandKit, marketingCopy,
                   logoError, themeResult, fetchLoading, logoUrl, fetchPending>>

CallDetermineTheme ==
    /\ themeResult' = <<determineTheme(propIdea)>>
    /\ UNCHANGED <<propIdea, logos, generating, brandPalette, brandKit, marketingCopy,
                   logoError, nameResult, fetchLoading, logoUrl, fetchPending>>

\* the fetch-based LogoGenerator({ idea }); its button carries
\* disabled={!idea || loading}
handleGenerateLogo ==
    /\ TruthyValue(propIdea)
    /\ ~fetchLoading
    /\ fetchLoading' = TRUE
    /\ fetchPending' = TRUE
    /\ UNCHANGED <<propIdea, logos, generating, brandPalette, brandKit, marketingCopy,
                   logoError, nameResult, themeResult, logoUrl>>

\* handleGenerateLogo from the moment the fetch settles; there is no try, so a
\* rejection ends the handler before setLogoUrl and setLoading(false)
FetchSettles(outcome) ==
    /\ fetchPending
    /\ fetchPending' = FALSE
    /\ IF outcome \in {"invalid json", "rejected"}
       THEN UNCHANGED <<logoUrl, fetchLoading>>
       ELSE /\ logoUrl' = (IF outcome = "image_url" THEN Str(<<"image_url">>) ELSE Undefined)
            /\ fetchLoading' = FALSE
    /\ UNCHANGED <<propIdea, logos, generating, brandPalette, brandKit, marketingCopy,
                   logoError, nameResult, themeResult>>

\* the two components; fetch and res.json() give a JSON body with or without
\* image_url, a body that is not JSON, or a rejected fetch
LogoNext ==
    \/ /\ generateLogos
       /\ UNCHANGED <<uiVars, calls, probeInFlight, hist, vIdea, vResult,
                    reqVars, probeVars, loadVars>>
    \/ /\ LogoStylesResolve
       /\ UNCHANGED <<uiVars, calls, probeInFlight, hist, vIdea, vResult,
                    reqVars, probeVars, loadVars>>
    \/ /\ CallExtractCompanyName
       /\ UNCHANGED <<uiVars, calls, probeInFlight, hist, vIdea, vResult,
                    reqVars, probeVars, loadVars>>
    \/ /\ CallDetermineTheme
       /\ UNCHANGED <<uiVars, calls, probeInFlight, hist, vIdea, vResult,
                    reqVars, probeVars, loadVars>>
    \/ /\ handleGenerateLogo
       /\ UNCHANGED <<uiVars, calls, probeInFlight, hist, vIdea, vResult,
                    reqVars, probeVars, loadVars>>
    \/ \E outcome \in {"image_url", "no image_url", "invalid json", "rejected"} :
          /\ FetchSettles(outcome)
          /\ UNCHANGED <<uiVars, calls, probeInFlight, hist, vIdea, vResult,
                       reqVars, probeVars, loadVars>>

LogoSpec == LogoInit /\ [][LogoNext]_vars

----------------------------------------------------------------------------
\* The loading message of App.jsx and the timers the handlers start.  Time is
\* kept as the time left on each timer; the texts are sequences of fragments,
\* '' is <<>>, and the emoji of the messages are named.

\* timers pending at once
MaxTimers == 3

\* answers of the transport followed here: a deck, a success=false reply with
\* a message, a failure that is retried, a failure that is not
LoadAnswers ==
    {OkAnswer(TRUE, TRUE, Str(DeckText), Undefined),
     OkAnswer(TRUE, FALSE, Undefined, Str(ServerMessage)),
     HttpAnswer(503, Undefined),
     HttpAnswer(400, Undefined)}

\* newStyle.replace('-', ' ') on the keys of the style menu
replaceHyphen(style) ==
    LET StyleWords == <<"data driven", "storytelling", "technology focused",
                        "market opportunity", "problem solving">>
    IN  StyleWords[CHOOSE k \in 1..Len(StyleKeys) : StyleKeys[k] = style]

\* callbacks that read the value written by setLoading(true)
loadingSeenAfterSet == TRUE

\* the `loading` a handler and the callbacks it creates read: the constant of
\* the render the clicked handler belongs to, that is the state at the click
LoadingSeenByHandler == loading

\* setTimeout(() => { if (loading) setLoadingMessage(message) }, ms)
Timer(handler, ms, message) ==
    [handler |-> handler, delay |-> ms, left |-> ms,
     seen |-> LoadingSeenByHandler, message |-> message,
     current |-> TRUE, fired |-> FALSE, late |-> FALSE]

\* the timers that have not run yet
Pending == {i \in 1..Len(timers) : ~timers[i].fired}

\* the timers of earlier generations that have not run yet stay scheduled
Retire(ts) ==
    LET IsPending(t) == ~t.fired
        kept == SelectSeq(ts, IsPending)
    IN  [i \in 1..Len(kept) |-> [kept[i] EXCEPT !.current = FALSE]]

\* handleGenerate with its loading message and its two timers
LoadGenerate ==
    /\ Cardinality(Pending) + 2 <= MaxTimers
    /\ handleGenerate
    /\ cleared' = FALSE
    /\ IF ~validateStartupIdea(businessIdea).isValid
       THEN UNCHANGED <<loadingMessage, timers>>
       ELSE /\ loadingMessage' =
                  (IF generateDetailed
                   THEN <<"(?) Analyzing your startup idea for detailed pitch deck...">>
                   ELSE <<"(rocket) Crafting your professional pitch deck...">>)
            /\ timers' = Retire(timers) \o
                  <<Timer("handleGenerate", 3000,
                          IF generateDetailed
                          THEN <<"(chart) Creating comprehensive market analysis and financial projections...">>
                          ELSE <<"(sparkles) Generating compelling slides and content...">>),
                    Timer("handleGenerate", 6000,
                          <<"(target) Finalizing your investor-ready pitch deck...">>)>>
    /\ UNCHANGED <<hist, reqVars, probeVars, logoVars>>

\* handleRegenerateWithStyle with its loading message and its timer
LoadRegenerate(newStyle) ==
    /\ Cardinality(Pending) + 1 <= MaxTimers
    /\ handleRegenerateWithStyle(newStyle)
    /\ cleared' = FALSE
    /\ loadingMessage' =
          <<"(arrows) Regenerating with ", replaceHyphen(newStyle), " approach...">>
    /\ timers' = Retire(timers) \o
          <<Timer("handleRegenerateWithStyle", 2000,
                  <<"(sparkles) Crafting ", replaceHyphen(newStyle), " pitch deck...">>)>>
    /\ UNCHANGED <<hist, reqVars, probeVars, logoVars>>

\* the answer of the transport; when the call ends the handler runs
\* setOutput(result) and finally { setLoading(false); setLoadingMessage('') }
LoadRespond(k, o) ==
    /\ TransportRespond(k, o)
    /\ loadingMessage' = (IF Step(k, o).next = "wait" THEN loadingMessage ELSE <<>>)
    /\ UNCHANGED <<timers, cleared>>
    /\ UNCHANGED <<hist, reqVars, probeVars, logoVars>>

\* the Clear button: no disabled attribute, nothing is cancelled
LoadClear ==
    /\ handleClearAll
    /\ cleared' = TRUE
    /\ UNCHANGED <<loadingMessage, timers>>
    /\ UNCHANGED <<hist, reqVars, probeVars, logoVars>>

\* a timer whose time is up runs its callback; timers due together run in the
\* order they were set.  `late` records that the generation had ended
TimerFires(i) ==
    /\ i \in Pending
    /\ timers[i].left = 0
    /\ \A j \in Pending : timers[j].left = 0 => i <= j
    /\ loadingMessage' = (IF timers[i].seen THEN timers[i].message ELSE loadingMessage)
    /\ timers' = IF timers[i].current
                 THEN [timers EXCEPT ![i].fired = TRUE, ![i].late = (calls = <<>>)]
                 ELSE Remove(timers, i)
    /\ UNCHANGED <<uiVars, calls, probeInFlight, vIdea, vResult, cleared>>
    /\ UNCHANGED <<hist, reqVars, probeVars, logoVars>>

\* time passes until the next timer is due; what happens in between happens
\* before this step
LoadTimePasses ==
    /\ Pending # {}
    /\ \A i \in Pending : timers[i].left > 0
    /\ LET d == Min({timers[i].left : i \in Pending})
       IN  timers' = [i \in 1..Len(timers) |->
                        IF i \in Pending
                        THEN [timers[i] EXCEPT !.left = timers[i].left - d]
                        ELSE timers[i]]
    /\ UNCHANGED <<uiVars, calls, probeInFlight, vIdea, vResult, loadingMessage, cleared>>
    /\ UNCHANGED <<hist, reqVars, probeVars, logoVars>>

\* the form with the first sample idea and the first style button
LoadNext ==
    \/ handleSampleClick(Idea(0, SampleLengths[1], 0)) /\ UNCHANGED <<hist, aside>>
    \/ ToggleDetailed /\ UNCHANGED <<hist, aside>>
    \/ LoadGenerate
    \/ LoadRegenerate(StyleKeys[1])
    \/ LoadClear
    \/ \E k \in 1..Len(calls), o \in LoadAnswers : LoadRespond(k, o)
    \/ \E k \in 1..Len(calls) : BackoffElapsed(k) /\ UNCHANGED <<hist, aside>>
    \/ \E i \in 1..Len(timers) : TimerFires(i)
    \/ LoadTimePasses

LoadingSpec == Init /\ [][LoadNext]_vars

\* every request is answered or runs into the 120 s timeout of the transport,
\* and the timer of a backoff fires
FairLoadingSpec ==
    /\ LoadingSpec
    /\ WF_vars(\E k \in 1..Len(calls), o \in LoadAnswers : LoadRespond(k, o))
    /\ WF_vars(\E k \in 1..Len(calls) : BackoffElapsed(k) /\ UNCHANGED <<hist, aside>>)

----------------------------------------------------------------------------
\* Claims about the generation client (under ClientSpec)

\* the call the trace belongs to: the one in flight, else the one that finished
CurrentCall == IF calls # <<>> THEN calls[Len(calls)] ELSE lastCall

IsStatus(o, statuses) == o.kind = "http" /\ o.status \in statuses

\* HTTP 5xx, 429, or a timeout
Transient(o) ==
    \/ o.kind = "http" /\ (o.status >= 500 \/ o.status = 429)
    \/ o.kind = "net" /\ o.code = "ECONNABORTED"

\* the text the client reports for a transient failure
TransientMessage(o) ==
    IF o.kind = "net" THEN TimedOutText
    ELSE IF o.status = 503 THEN UnavailableText
    ELSE IF o.status = 429 THEN RateLimitText
    ELSE ServerErrorText

\* C1: when the transport answers a generation request with HTTP 400 or 401, the
\* transport is invoked exactly once: the call ends on that answer, with no
\* backoff wait and no second attempt.
C1_ClientErrorNotRetried ==
    (Len(trace) >= 1 /\ IsStatus(trace[1], {400, 401}))
    => /\ calls = <<>>
       /\ lastCall.phase = "done"
       /\ lastCall.attempt = 1
       /\ lastCall.waits = <<>>
       /\ Len(trace) = 1

C3_RetryPolicy ==
    LET c == CurrentCall
    IN /\ Len(trace) <= 3
       /\ c.attempt <= 3
       /\ Len(c.waits) <= 2
       /\ \A n \in 1..Len(c.waits) : c.waits[n] = 2000 * n
       /\ c.phase = "awaiting" => Len(trace) = c.attempt - 1 /\ Len(c.waits) = c.attempt - 1
       /\ c.phase = "backoff" => Len(trace) = c.attempt /\ Len(c.waits) = c.attempt
       /\ c.phase = "done" => Len(trace) = c.attempt /\ Len(c.waits) = c.attempt - 1
       /\ \A n \in 1..Len(trace) :
            (Transient(trace[n]) /\ n < 3) =>
                /\ Len(c.waits) >= n
                /\ Len(trace) = n => calls # <<>>
       /\ trace = <<HttpAnswer(503, Undefined), HttpAnswer(503, Undefined),
                    OkAnswer(TRUE, TRUE, Str(DeckText), Undefined)>>
            => /\ c.phase = "done"
               /\ c.attempt = 3
               /\ c.waits = <<2000, 4000>>
               /\ c.result = Resolved(Str(DeckText))

C3_Witness ==
    /\ trace = <<HttpAnswer(503, Undefined), HttpAnswer(503, Undefined),
                 OkAnswer(TRUE, TRUE, Str(DeckText), Undefined)>>
    /\ lastCall.phase = "done"
    /\ calls = <<>>

\* C4: whatever the transport answers, a call that ends has resolved, not
\* rejected, and its value is a string.
C4_AlwaysResolvesToString ==
    lastCall.phase = "done"
    => ~lastCall.result.rejected /\ IsString(lastCall.result.value)

\* C5: when every attempt of a call fails with a transient error, the call ends
\* after exactly 3 transport invocations with the failure glyph, a blank and the
\* message of the third attempt's error.
C5_ExhaustedRetries ==
    (/\ calls = <<>>
     /\ lastCall.phase = "done"
     /\ \A n \in 1..Len(trace) : Transient(trace[n]))
    => /\ Len(trace) = 3
       /\ lastCall.attempt = 3
       /\ lastCall.result =
              Resolved(Str(<<FailureGlyph, " ">> \o TransientMessage(trace[3])))

C5_Witness ==
    /\ calls = <<>>
    /\ lastCall.phase = "done"
    /\ Len(trace) = 3
    /\ \A n \in 1..3 : Transient(trace[n])
    /\ TransientMessage(trace[3]) # TransientMessage(trace[1])
    /\ TransientMessage(trace[3]) # TransientMessage(trace[2])

\* C6: every call that ends without a deck (HTTP error, timeout, connection
\* failure, or a response whose success flag is false) returns a string that
\* starts with the failure glyph.
C6_FailureMarked ==
    (/\ lastCall.phase = "done"
     /\ Len(trace) >= 1
     /\ LET last == trace[Len(trace)]
        IN ~(last.kind = "ok" /\ last.hasData /\ last.success))
    => StartsWith(lastCall.result.value, FailureGlyph)

----------------------------------------------------------------------------
\* Claims about the validator (under ValidateSpec)

\* C7: validateStartupIdea returns isValid = false with an error exactly when
\* the idea is missing or empty, its trimmed length is below 10 or its raw
\* length is above 1000, the too-short error taking precedence; it returns
\* isValid = true without error for every other idea; and the call changes
\* nothing but its result.
C7_Validator ==
    /\ [](vResult # <<>> =>
            LET r == vResult[1]
                tooShort == vIdea.isNull \/ vIdea.lead + vIdea.core + vIdea.trail = 0
                            \/ vIdea.core < 10
                tooLong == vIdea.lead + vIdea.core + vIdea.trail > 1000
            IN /\ r.isValid = ~(tooShort \/ tooLong)
               /\ tooShort => r.error = Str(<<"Please provide a more detailed description (at least ",
                                              "10", " characters)">>)
               /\ (~tooShort /\ tooLong) =>
                      r.error = Str(<<"Description is too long (maximum ", "1000",
                                      " characters)">>)
               /\ ~(tooShort \/ tooLong) => r.error = Undefined)
    /\ [][UNCHANGED <<uiVars, calls, probeInFlight, vIdea>>]_vars

C7_Witness ==
    /\ vResult # <<>>
    /\ vIdea.core >= 10
    /\ vIdea.lead + vIdea.core + vIdea.trail > 1000
    /\ vIdea.core <= 1000
    /\ ~vResult[1].isValid

----------------------------------------------------------------------------
\* Claims about the form (under Spec)

\* an idea the validator must reject, and the error it must give
Rejects(i) == i.isNull \/ i.core < 10 \/ i.lead + i.core + i.trail > 1000

\* C8: every generation request in flight carries an idea text that passes the
\* validator: trimmed length >= 10 and raw length <= 1000.
C8_RequestsCarryValidIdea ==
    \A k \in 1..Len(calls) : ~Rejects(calls[k].idea)

C10_NoGenerationWhileOffline ==
    [][serverStatus = "offline" => Len(calls') <= Len(calls)]_vars

----------------------------------------------------------------------------
\* Claims about the request builder (under RequestSpec)

\* <ms>_<suffix>
RequestIdForm(v) ==
    /\ IsString(v)
    /\ Len(v.s) = 3
    /\ v.s[1] \in {ToString(ms) : ms \in 0..MaxClock}
    /\ v.s[2] = "_"

\* C11: any two requests carry different, non-empty request_id values of the
\* form <epoch_ms>_<random suffix>, also when they are built in the same
\* millisecond from the same idea and options.
C11_RequestIdsUnique ==
    \A i, j \in 1..Len(sent) :
        /\ Truthy(sent[i].request.request_id)
        /\ RequestIdForm(sent[i].request.request_id)
        /\ i # j => sent[i].request.request_id # sent[j].request.request_id

\* C12: every request built has a non-null target_audience and funding_stage
\* and carries the idea as it was given, whatever the idea and the options; the
\* request built from {} for the dog-walking idea carries the defaults.
C12_BuilderDefaults ==
    \A k \in 1..Len(sent) :
        LET r == sent[k].request IN
        /\ r.idea = sent[k].idea
        /\ Truthy(r.target_audience)
        /\ Truthy(r.funding_stage)
        /\ (sent[k].options = NoOptions /\ sent[k].idea = DogWalkingIdea) =>
              /\ Truthy(r.request_id)
              /\ r = [idea |-> DogWalkingIdea,
                      target_audience |-> Str(<<"general investors">>),
                      industry |-> Null,
                      funding_stage |-> Str(<<"seed">>),
                      presentation_style |-> Str(<<"balanced">>),
                      business_model |-> Null,
                      competitor_context |-> Null,
                      request_id |-> r.request_id]

\* the builder was called with {} for the dog-walking idea, and with empty
\* fields for an empty idea
C12_Witness ==
    \E j, k \in 1..Len(sent) :
        /\ sent[j].options = NoOptions /\ sent[j].idea = DogWalkingIdea
        /\ sent[k].options = EmptyOptions /\ sent[k].idea = Idea(0, 0, 0)

----------------------------------------------------------------------------
\* Claims about the health prober (under HealthSpec)

\* the completion recorded last
LastResult == results[Len(results)]

TimedOut(k) == results[k].answer.kind = "ECONNABORTED"

\* C13: whenever the health endpoint responds successfully, checkServerHealth
\* returns the status 'healthy' and the status shown becomes online, whatever
\* the payload.
C13_SuccessIsOnline ==
    \A k \in 1..Len(results) :
        results[k].answer.kind = "ok" =>
            /\ results[k].status = "healthy"
            /\ (mounted /\ k = Len(results)) => serverStatus = "online"

\* C14: a failed probe is classified as 'offline' when the connection was
\* refused, 'timeout' when no response came in time and 'unhealthy' for every
\* other error; with 'healthy' these are the only statuses returned.
C14_FourStatuses ==
    \A k \in 1..Len(results) :
        LET kind == results[k].answer.kind IN
        /\ results[k].status \in {"healthy", "offline", "timeout", "unhealthy"}
        /\ kind = "ECONNREFUSED" => results[k].status = "offline"
        /\ kind = "ECONNABORTED" => results[k].status = "timeout"
        /\ kind \in {"5xx", "other"} => results[k].status = "unhealthy"

\* C15: while every probe so far has timed out the status shown is offline
\* (neither checking nor online); the first probe answered successfully after
\* that sets the status to online.
C15_TimeoutsThenRecovery ==
    (mounted /\ results # <<>>) =>
        /\ (\A k \in 1..Len(results) : TimedOut(k)) => serverStatus = "offline"
        /\ (/\ Len(results) >= 2
            /\ \A k \in 1..(Len(results) - 1) : TimedOut(k)
            /\ LastResult.answer.kind = "ok") => serverStatus = "online"

\* C16: at most one probe is in flight, a probe that completes is the probe
\* started last, completions come in the order of the starts, and the status
\* shown is the mapped result of the completion recorded last.
C16_LatestProbeWins ==
    /\ Cardinality(probes) <= 1
    /\ \A k \in 1..Len(results) : results[k].n = results[k].latest
    /\ \A j, k \in 1..Len(results) : j < k => results[j].n < results[k].n
    /\ (mounted /\ results # <<>>) =>
           serverStatus = (IF LastResult.status = "healthy" THEN "online" ELSE "offline")

\* two probes completed with different mapped results, and the later one shows
C16_Witness ==
    /\ mounted
    /\ Len(results) >= 2
    /\ results[1].status = "healthy"
    /\ results[2].status = "unhealthy"
    /\ serverStatus = "offline"

\* C17: while the component is mounted, one probe was started at the mount and
\* one at every multiple of 30,000 ms that has passed, each at its tick; after
\* the teardown no probe is started.
C17_ProbePerTick ==
    /\ [](/\ mounted =>
                /\ started = 1 + ticks
                /\ ticks * healthInterval <= clock
                /\ clock <= (ticks + 1) * healthInterval
          /\ \A p \in probes : p.at = (p.n - 1) * healthInterval)
    /\ [][~mounted => (~mounted' /\ started' = started /\ probes' \subseteq probes)]_vars

\* a tick has passed after the teardown, and a tick had fired before it
C17_Witness ==
    /\ ~mounted
    /\ started = 2
    /\ clock >= 2 * healthInterval

\* C18: the status shown is checking, online or offline; it is checking
\* exactly until the first probe completes and never again; every result
\* other than 'healthy' is shown as offline.
C18_StatusShown ==
    /\ [](/\ serverStatus \in {"checking", "online", "offline"}
          /\ mounted => (serverStatus = "checking" <=> results = <<>>)
          /\ (mounted /\ results # <<>> /\ LastResult.status # "healthy") =>
                 serverStatus = "offline")
    /\ [][serverStatus # "checking" => serverStatus' # "checking"]_vars

\* a probe timed out after a healthy one, and the status shown is offline
C18_Witness ==
    /\ mounted
    /\ Len(results) >= 2
    /\ results[1].status = "healthy"
    /\ LastResult.status = "timeout"
    /\ serverStatus = "offline"

----------------------------------------------------------------------------
\* Claims about the form and the status of the server (under Spec)

\* C19: serverStatus changes only when a health probe completes, and that step
\* changes nothing else of the form or of the generation calls; no handler of
\* the form and no outcome of a generation call changes it.
C19_SingleWriter ==
    [][serverStatus' # serverStatus =>
          /\ probeInFlight /\ ~probeInFlight'
          /\ UNCHANGED <<businessIdea, output, loading, presentationStyle,
                         generateDetailed, showLanding, activeTab, calls>>]_vars

\* a generation has failed with a refused connection and the status is online
C19_Witness ==
    /\ serverStatus = "online"
    /\ calls = <<>>
    /\ ~loading
    /\ output = FailureString(CannotConnectText)

\* C20 as claimed: while a generation is in flight, the user can trigger
\* Generate again (form shown, valid idea, server not offline), and that
\* starts a second call that overlaps the first.
C20_SecondGenerateOverlaps ==
    (/\ calls # <<>>
     /\ FormShown
     /\ serverStatus # "offline"
     /\ validateStartupIdea(businessIdea).isValid)
        => ENABLED (handleGenerate /\ Len(calls') = Len(calls) + 1)

\* C20 as the code has it: while a generation is in flight loading is true,
\* so Generate is disabled and the style buttons are not offered; at most one
\* generation request is in flight.
C20_OneGenerationAtATime ==
    /\ Len(calls) <= 1
    /\ calls # <<>> =>
          /\ loading
          /\ ~GenerateEnabled
          /\ \A style \in RegenerateStyles : ~RegenerateEnabled(style)

\* a generation is in flight, in its backoff, while the form is shown with a
\* valid idea and the server is online
C20_Witness ==
    /\ Len(calls) = 1
    /\ calls[1].phase = "backoff"
    /\ FormShown
    /\ serverStatus = "online"
    /\ validateStartupIdea(businessIdea).isValid

----------------------------------------------------------------------------
\* Claims about the handlers of a generation (under ClientSpec)

\* the last generation has ended, and its last answer was not a deck
LastGenerationFailed ==
    /\ calls = <<>>
    /\ lastCall.phase = "done"
    /\ Len(trace) >= 1
    /\ LET last == trace[Len(trace)]
       IN ~(last.kind = "ok" /\ last.hasData /\ last.success)

\* C25: when the generation started by handleRegenerateWithStyle fails,
\* presentationStyle is again the value it had before the regeneration
C25_StyleRestoredOnFailure ==
    (LastGenerationFailed /\ lastCall.handler = "handleRegenerateWithStyle")
    => presentationStyle = lastCall.originalStyle

\* C28: whenever the last generation ended in a failure of any kind, a reply
\* with success=false and any message included, isValidOutput is false
C28_SuccessOnlyAfterDeck == LastGenerationFailed => ~isValidOutput
----------------------------------------------------------------------------
\* Claims about the logo generators (under LogoSpec)

\* ideas of the test tables and of the witnesses
DogWalkingText ==
    Str(<<"A", " ", "m", "o", "b", "i", "l", "e", " ", "a", "p", "p", " ",
        "f", "o", "r", " ", "d", "o", "g", " ", "w", "a", "l", "k", "i",
        "n", "g">>)

FitnessPlatformText ==
    Str(<<"A", "I", "-", "p", "o", "w", "e", "r", "e", "d", " ", "f", "i",
        "t", "n", "e", "s", "s", " ", "p", "l", "a", "t", "f", "o", "r",
        "m">>)

FitnessFoodText ==
    Str(<<"F", "i", "t", "n", "e", "s", "s", " ", "f", "o", "o", "d", " ",
        "d", "e", "l", "i", "v", "e", "r", "y">>)

FoodDeliveryText ==
    Str(<<"f", "o", "o", "d", " ", "d", "e", "l", "i", "v", "e", "r", "y",
        " ", "s", "e", "r", "v", "i", "c", "e">>)

MobileAI == <<"M", "o", "b", "i", "l", "e", "A", "I">>

FitnessAI == <<"F", "i", "t", "n", "e", "s", "s", "A", "I">>

\* the keywords of the four themes and the fallback name, as the claims give them
HealthWords == {<<"h", "e", "a", "l", "t", "h">>, <<"m", "e", "d", "i", "c", "a", "l">>, <<"f", "i", "t", "n", "e", "s", "s">>}

FoodWords == {<<"f", "o", "o", "d">>, <<"r", "e", "s", "t", "a", "u", "r", "a", "n", "t">>, <<"d", "e", "l", "i", "v", "e", "r", "y">>}

EducationWords == {<<"e", "d", "u", "c", "a", "t", "i", "o", "n">>, <<"l", "e", "a", "r", "n", "i", "n", "g">>, <<"s", "t", "u", "d", "e", "n", "t">>}

FinanceWords == {<<"f", "i", "n", "a", "n", "c", "e">>, <<"f", "i", "n", "t", "e", "c", "h">>, <<"p", "a", "y", "m", "e", "n", "t">>}

StartupAI == <<"S", "t", "a", "r", "t", "u", "p", "A", "I">>

Themes == {HealthTheme, FoodTheme, EducationTheme, FinanceTheme, TechTheme}

\* the text of the idea as the claims read it: '' unless it is a string
IdeaText == IF IsString(propIdea) THEN propIdea.s ELSE <<>>

\* the idea mentions one of the keywords, in any case
Mentions(keywords) == \E k \in keywords : includesText(toLowerCase(IdeaText), k)

\* C22: determineTheme picks the theme by case-insensitive keyword match with
\* the precedence health > food > education > finance > tech; a null,
\* non-string or empty idea gives the tech theme; every theme has a palette
\* of primary, secondary, accent and a two-colour gradient, and an icon
C22_ThemePrecedence ==
    themeResult # <<>> =>
        LET theme == themeResult[1] IN
        /\ theme \in Themes
        /\ Mentions(HealthWords) => theme = HealthTheme
        /\ (~Mentions(HealthWords) /\ Mentions(FoodWords)) => theme = FoodTheme
        /\ (~Mentions(HealthWords \cup FoodWords) /\ Mentions(EducationWords))
              => theme = EducationTheme
        /\ (~Mentions(HealthWords \cup FoodWords \cup EducationWords)
               /\ Mentions(FinanceWords)) => theme = FinanceTheme
        /\ ~Mentions(HealthWords \cup FoodWords \cup EducationWords \cup FinanceWords)
              => theme = TechTheme
        /\ (propIdea \in {Null, Undefined, Number, Str(<<>>)}) => theme = TechTheme
        /\ DOMAIN theme.colors = {"primary", "secondary", "accent", "gradient"}
        /\ \A k \in {"primary", "secondary", "accent"} : hexToRgb(theme.colors[k]) # Null
        /\ Len(theme.colors.gradient) = 2
        /\ \A i \in 1..2 : hexToRgb(theme.colors.gradient[i]) # Null
        /\ theme.icon # ""
        /\ \A other \in Themes \ {theme} :
              other.colors # theme.colors /\ other.icon # theme.icon

\* an idea in upper and lower case with keywords of two themes got the theme
\* of the keyword that takes precedence
C22_Witness ==
    /\ propIdea = FitnessFoodText
    /\ themeResult = <<HealthTheme>>

\* C23: extractCompanyName returns 'StartupAI' for an empty, null, undefined or
\* non-string idea, 'MobileAI' for 'A mobile app for dog walking' and
\* 'FitnessAI' for 'AI-powered fitness platform'
C23_CompanyNames ==
    nameResult # <<>> =>
        /\ (propIdea \in {Str(<<>>), Null, Undefined, Number})
              => nameResult[1] = StartupAI
        /\ propIdea = DogWalkingText
              => nameResult[1] = MobileAI
        /\ propIdea = FitnessPlatformText
              => nameResult[1] = FitnessAI

\* the styles of the five logos, in the order of their ids
StyleNames ==
    <<<<"M", "i", "n", "i", "m", "a", "l", "i", "s", "t">>,
      <<"I", "c", "o", "n", " ", "+", " ", "T", "e", "x", "t">>,
      <<"A", "b", "s", "t", "r", "a", "c", "t", " ", "S", "y", "m", "b",
        "o", "l">>,
      <<"B", "a", "d", "g", "e">>,
      <<"G", "e", "o", "m", "e", "t", "r", "i", "c">>>>

\* a generation of the logo component has completed
LogosCompleted == ~generating /\ (logos # <<>> \/ logoError # Null)

\* C24: after generateLogos completes for a non-blank idea, logos holds five
\* entries with ids 1..5 in the styles Minimalist, Icon + Text, Abstract
\* Symbol, Badge, Geometric, each with SVG content that is not empty;
\* brandPalette, brandKit and marketingCopy are set, error is null and
\* generating is false; for a blank idea no state of the component changes
C24_FiveLogos ==
    /\ LogosCompleted =>
          /\ ~IsBlankIdea(propIdea)
          /\ Len(logos) = 5
          /\ \A i \in 1..5 :
                /\ logos[i].id = i
                /\ includesText(logos[i].style, StyleNames[i])
                /\ logos[i].design.type = "svg"
                /\ Len(logos[i].design.content) > 0
                /\ logos[i].design.content[1] # ""
          /\ brandPalette # Null
          /\ brandKit # Null
          /\ marketingCopy # Null
          /\ logoError = Null
    /\ IsBlankIdea(propIdea) =>
          /\ logos = <<>>
          /\ ~generating
          /\ brandPalette = Null
          /\ brandKit = Null
          /\ marketingCopy = Null
          /\ logoError = Null

C24_Witness ==
    /\ propIdea = FoodDeliveryText
    /\ LogosCompleted
    /\ Len(logos) = 5
    /\ brandPalette.primary.rgb = [r |-> 249, g |-> 115, b |-> 22]

\* C30: in the fetch-based LogoGenerator, loading is false again once a
\* handleGenerateLogo call has ended, whatever the fetch did
C30_LoadingReturns == ~fetchPending => ~fetchLoading

----------------------------------------------------------------------------
\* Claims about the loading message (under LoadingSpec and FairLoadingSpec)

FinalizingMessage == <<"(target) Finalizing your investor-ready pitch deck...">>

\* the timers of the generation started last that have run
FiredNow == {i \in 1..Len(timers) : timers[i].current /\ timers[i].fired}

GenerateInProgress == calls # <<>> /\ calls[1].handler = "handleGenerate"

\* C26: while a generation started by handleGenerate is in progress, the
\* loading message is the second-phase message once 3000 ms have passed and
\* the finalizing message once 6000 ms have passed
C26_MessagePhases ==
    GenerateInProgress =>
        \A i \in FiredNow :
            /\ (timers[i].delay = 3000 /\ Cardinality(FiredNow) = 1)
                  => loadingMessage = timers[i].message
            /\ timers[i].delay = 6000 => loadingMessage = FinalizingMessage

\* C27: every generation ends, with loading = false and loadingMessage = '',
\* and while no generation is in flight both stay so, whatever timers fire
C27_GenerationEnds ==
    /\ [](calls = <<>> => (~loading /\ loadingMessage = <<>>))
    /\ (calls # <<>>) ~> (calls = <<>> /\ ~loading /\ loadingMessage = <<>>)

\* a generation that was retried has ended and one of its timers has fired
\* after that
C27_Witness ==
    /\ calls = <<>>
    /\ ~loading
    /\ loadingMessage = <<>>
    /\ output = Str(<<FailureGlyph, " ">> \o UnavailableText)
    /\ \E i \in FiredNow : timers[i].late

\* C29: after Clear the output stays empty until the user starts a generation
C29_ClearedStaysEmpty == cleared => output = Str(<<>>)

====
